---- MODULE Spec2Model ----
(***************************************************************************)
(* The demo lifecycle runner (class DemoRunner): hot-swappable demo units  *)
(* behind one canvas, two rendering back-ends, a requestAnimationFrame     *)
(* loop and a pause-adjusted logical clock.                                *)
(*                                                                         *)
(* One action per public operation or host callback.  The environment is   *)
(* the wall clock (performance.now), the host's pending animation-frame    *)
(* callbacks, the promises returned by Demo.init that are still in flight, *)
(* the listeners registered on the window, and the set of context kinds    *)
(* the platform can create.  The pixels of the drawing buffer (clearRect,  *)
(* gl.clear, gl.viewport) and the pointer coordinates are not modelled.    *)
(***************************************************************************)
EXTENDS Integers, Sequences, FiniteSets, TLC

\* ------------------------------------------------------------------ bounds
\* The wall clock takes the instants Instant(0) .. Instant(MaxTick).
MaxTick == 2
\* At most MaxInFlight promises of Demo.init are unresolved at one time.
MaxInFlight == 2
\* At most MaxFrames animation-frame callbacks are pending at one time.
MaxFrames == 2
\* At most MaxKeyListeners keydown listeners are registered on the window.
MaxKeyListeners == 3
\* At most MaxRegistered calls of registerDemo are made.
MaxRegistered == 3

\* ------------------------------------------------------------ demo units
Null == "null"
RendererTypes == {"canvas2d", "webgl2"}

\* Two registered units, one per back-end kind.
Demos == {"A", "B"}

\* demo.metadata.renderer
renderer(demo) == IF demo = "A" THEN "canvas2d" ELSE "webgl2"

\* The optional hooks a unit implements: A all three, B the pointer-move
\* hook only.
Hooks(demo) ==
  IF demo = "A" THEN {"onMouseMove", "onMouseDown", "onKeyDown"}
  ELSE {"onMouseMove"}

\* Values of performance.now(), in milliseconds; the runner is constructed
\* at Instant(0), one second after the page started loading.
Instant(k) ==
  CASE k = 0 -> 1000
    [] k = 1 -> 1500
    [] OTHER -> 1516 + 16 * (k - 2)

\* Canvas pixel sizes <<width, height>> the container can give.
Sizes == {<<10, 10>>, <<20, 20>>}

\* The container's size when the page loads.
InitialSize == <<10, 10>>

NA == -1
NoSize == <<0, 0>>

\* One call the runner makes on a demo unit during a step (or, for
\* "recreateCanvas", on the document).
Call(op, demo, ctx, size, time, dt) ==
  [op |-> op, demo |-> demo, ctx |-> ctx, size |-> size, time |-> time, dt |-> dt]

InitCall(demo, ctx, size) == Call("init", demo, ctx, size, NA, NA)
RenderCall(demo, time, dt) == Call("render", demo, Null, NoSize, time, dt)
ResizeCall(demo, size) == Call("resize", demo, Null, size, NA, NA)
DestroyCall(demo) == Call("destroy", demo, Null, NoSize, NA, NA)
HookCall(hook, demo) == Call(hook, demo, Null, NoSize, NA, NA)
RecreateEvent == Call("recreateCanvas", Null, Null, NoSize, NA, NA)

\* n copies of call c, one per registered listener.
Repeat(n, c) == [i \in 1..n |-> c]

\* The calls of log named op.
CallsOf(log, op) == {i \in DOMAIN log : log[i].op = op}

\* ------------------------------------------------------------- registry
\* The keys of demoRegistry, in the order Object.values visits them.
EraOrder == <<"oldschool", "golden", "modern">>
Eras == {EraOrder[k] : k \in DOMAIN EraOrder}

\* The units that register themselves: the registry reads metadata.era and
\* metadata.id; metadata.name tells apart two units that share both.
Ids == {"plasma", "tunnel"}
Names == {"Plasma", "Tunnel"}
RegistryDemos == [id : Ids, era : Eras, name : Names]

VARIABLES
  \* ---- fields of DemoRunner
  canvas,                 \* the element this.canvas refers to:
                          \*   ctx: context type it is bound to, or Null
                          \*   size: <<width, height>>
                          \*   listeners: mousemove/mousedown listener pairs on it
  ctx2d,                  \* Null or the 2d context handle
  gl,                     \* Null or the webgl2 context handle
  currentRendererType,    \* Null or a renderer type
  currentDemo,            \* Null or the active demo unit
  animationId,            \* 0 or the handle of the last requested frame
  lastTime,
  isPaused,
  pausedTime,
  accumulatedPauseTime,
  \* ---- host environment
  platform,               \* context kinds canvas.getContext can create
  now,                    \* performance.now()
  frames,                 \* handles of the pending requestAnimationFrame callbacks
  initState,              \* promise of currentDemo's init: none/pending/done/failed
  staleInits,             \* unresolved init promises of superseded or stopped activations
  keyListeners,           \* keydown listeners this runner has added to the window
  \* ---- the registry module
  demoRegistry,           \* per era, the array of registered units
  returned,               \* the last lookup: its name, argument and return value
                          \* (a unit or undefined as a list of one or no unit)
  \* ---- observation of the last step
  calls,                  \* the calls it made on demo units, in order
  \* ---- bookkeeping for the claims
  pausedSince,            \* wall-clock time spent with isPaused set since the last runDemo
  resumedAt,              \* instant of the last resume() that ended a pause of the
                          \* running unit (its init completed) and that no render
                          \* has followed yet, or NA
  balance,                \* per unit: init calls minus destroy calls so far
  registered,             \* the units passed to registerDemo so far, in order
  lastLogical,            \* logical time of the last render of this activation, or NA
  prevLogical,            \* logical time of the render before that one, or NA
  \* ---- the gallery
  selectedDemo,           \* Gallery.currentDemo: Null or the unit last selected
  btnPause                \* text the gallery last wrote on the pause button, or Null

vars == <<canvas, ctx2d, gl, currentRendererType, currentDemo, animationId,
          lastTime, isPaused, pausedTime, accumulatedPauseTime,
          platform, now, frames, initState, staleInits, keyListeners, calls,
          pausedSince, resumedAt, balance, demoRegistry, returned, registered,
          lastLogical, prevLogical, selectedDemo, btnPause>>

\* The logical times of the last two renders.
logicalVars == <<lastLogical, prevLogical>>

\* The fields of the gallery and its pause button.
galleryVars == <<selectedDemo, btnPause>>

\* The registry and what is recorded of its use.
registryVars == <<demoRegistry, returned, registered>>

\* The fields of the runner.
runnerVars == <<canvas, ctx2d, gl, currentRendererType, currentDemo,
                animationId, lastTime, isPaused, pausedTime,
                accumulatedPauseTime>>

\* The environment, but the clock.
hostVars == <<platform, frames, initState, staleInits, keyListeners>>

\* ------------------------------------------------------------------- Init
\* DemoRunner's field initialisers and constructor (setupResize sizes the
\* canvas to its container, setupInputHandlers adds the first listeners).
\* The platform is one that has WebGL 2 or one that has not.
Init ==
  /\ canvas = [ctx |-> Null, size |-> InitialSize, listeners |-> 1]
  /\ ctx2d = Null
  /\ gl = Null
  /\ currentRendererType = Null
  /\ currentDemo = Null
  /\ animationId = 0
  /\ lastTime = 0
  /\ isPaused = FALSE
  /\ pausedTime = 0
  /\ accumulatedPauseTime = 0
  /\ platform \in {RendererTypes, {"canvas2d"}}
  /\ now = Instant(0)
  /\ frames = {}
  /\ initState = "none"
  /\ staleInits = 0
  /\ keyListeners = 1
  /\ calls = <<>>
  /\ pausedSince = 0
  /\ resumedAt = NA
  /\ balance = [d \in Demos |-> 0]
  /\ demoRegistry = [era \in Eras |-> <<>>]
  /\ returned = [op |-> Null, arg |-> Null, value |-> <<>>]
  /\ registered = <<>>
  /\ lastLogical = NA
  /\ prevLogical = NA
  /\ selectedDemo = Null
  /\ btnPause = Null

\* ------------------------------------------------------------ environment
\* The wall clock moves forward.
Advance ==
  /\ \E k \in 1..MaxTick :
       /\ Instant(k) > now
       /\ now' = Instant(k)
       /\ pausedSince' = IF isPaused THEN pausedSince + (Instant(k) - now)
                         ELSE pausedSince
  /\ calls' = <<>>
  /\ UNCHANGED <<runnerVars, hostVars, resumedAt, logicalVars, balance,
                 registryVars, galleryVars>>

\* --------------------------------------------------------- canvas, broker
\* HTMLCanvasElement.getContext on an element bound to `bound`: the handle of
\* a context of `type`, or Null when the platform cannot create that kind or
\* the element is already bound to the other kind.  The trailing non-null
\* assertion (!) of the source is erased at run time.
CanvasGetContext(bound, type) ==
  IF type \in platform /\ bound \in {Null, type} THEN type ELSE Null

\* What getContext and recreateCanvas read and write.
Broker ==
  [canvas |-> canvas, ctx2d |-> ctx2d, gl |-> gl, keyListeners |-> keyListeners]

\* recreateCanvas() without "Clear old contexts".
recreateCanvas_keepContexts(s) ==
  [canvas |-> [ctx |-> Null, size |-> s.canvas.size, listeners |-> 1],
   ctx2d |-> s.ctx2d,
   gl |-> s.gl,
   keyListeners |-> s.keyListeners + 1]

\* recreateCanvas() without copying width and height: the new element keeps
\* the size it is created with.
recreateCanvas_ownSize(s) ==
  [canvas |-> [ctx |-> Null, size |-> InitialSize, listeners |-> 1],
   ctx2d |-> Null,
   gl |-> Null,
   keyListeners |-> s.keyListeners + 1]

\* recreateCanvas() without the call of setupInputHandlers().
recreateCanvas_noHandlers(s) ==
  [canvas |-> [ctx |-> Null, size |-> s.canvas.size, listeners |-> 0],
   ctx2d |-> Null,
   gl |-> Null,
   keyListeners |-> s.keyListeners]

\* recreateCanvas(): a fresh unbound element of the same size replaces the
\* old one, both handles are dropped, and setupInputHandlers() adds a
\* listener pair to the new element and one more keydown listener to the
\* window.
recreateCanvas(s) ==
  [canvas |-> [ctx |-> Null, size |-> s.canvas.size, listeners |-> 1],
   ctx2d |-> Null,
   gl |-> Null,
   keyListeners |-> s.keyListeners + 1]

\* getContext() without the test for the first request.
NeedsRecreate_alsoFirst(type) == currentRendererType # type

\* getContext() without the comparison of the two kinds.
NeedsRecreate_anyRequest(type) == currentRendererType # Null

\* getContext(): rebuild iff a kind was requested before and it differs.
NeedsRecreate(type) ==
  currentRendererType # Null /\ currentRendererType # type

\* getContext(type) on broker state s: the broker state it leaves.
getContext(s, type) ==
  LET s1 == IF NeedsRecreate(type) THEN recreateCanvas(s) ELSE s
  IN  IF type = "canvas2d"
        THEN IF s1.ctx2d = Null
               THEN LET h == CanvasGetContext(s1.canvas.ctx, "canvas2d")
                    IN  [s1 EXCEPT !.ctx2d = h,
                                   !.canvas.ctx = IF h # Null THEN "canvas2d" ELSE @]
               ELSE s1
        ELSE IF s1.gl = Null
               THEN LET h == CanvasGetContext(s1.canvas.ctx, "webgl2")
                    IN  [s1 EXCEPT !.gl = h,
                                   !.canvas.ctx = IF h # Null THEN "webgl2" ELSE @]
               ELSE s1

\* getContext(type): the handle it returns.
ReturnedContext(s, type) ==
  IF type = "canvas2d" THEN getContext(s, type).ctx2d ELSE getContext(s, type).gl

\* ------------------------------------------------------------------- stop
\* stop(), first block: the frame cancelAnimationFrame(animationId) removes.
StopFrames == IF animationId # 0 THEN frames \ {animationId} ELSE frames

\* stop() without the call of destroy().
StopCalls_noDestroy == <<>>

\* stop(), second block: destroy() on the current demo, if any.
StopCalls == IF currentDemo # Null THEN <<DestroyCall(currentDemo)>> ELSE <<>>

\* An init promise that is pending when its unit stops being the current
\* demo stays pending: its continuation in runDemo still runs when it resolves.
StaleAfterStop == IF initState = "pending" THEN staleInits + 1 ELSE staleInits

\* balance after the calls of log.
Balanced(b, log) ==
  [d \in Demos |->
     b[d] + Cardinality({i \in CallsOf(log, "init") : log[i].demo = d})
          - Cardinality({i \in CallsOf(log, "destroy") : log[i].demo = d})]

\* stop() without "this.currentDemo = null".
stop_keepsDemo ==
  /\ frames' = StopFrames
  /\ animationId' = 0
  /\ calls' = StopCalls
  /\ staleInits' = StaleAfterStop
  /\ initState' = "none"
  /\ balance' = Balanced(balance, StopCalls)
  /\ resumedAt' = NA
  /\ lastLogical' = NA
  /\ prevLogical' = NA
  /\ UNCHANGED <<canvas, ctx2d, gl, currentRendererType, currentDemo, lastTime,
                 isPaused, pausedTime, accumulatedPauseTime, platform, now,
                 keyListeners, pausedSince, registryVars, galleryVars>>

\* stop().  Called from inside a unit's render it runs after loop() has
\* requested the next frame and stored lastTime, and loop() does nothing
\* after render returns: that is a Tick step followed by a stop step.
stop ==
  /\ frames' = StopFrames
  /\ animationId' = 0
  /\ calls' = StopCalls
  /\ currentDemo' = Null
  /\ staleInits' = StaleAfterStop
  /\ initState' = "none"
  /\ balance' = Balanced(balance, StopCalls)
  /\ resumedAt' = NA
  /\ lastLogical' = NA
  /\ prevLogical' = NA
  /\ UNCHANGED <<canvas, ctx2d, gl, currentRendererType, lastTime, isPaused,
                 pausedTime, accumulatedPauseTime, platform, now, keyListeners,
                 pausedSince, registryVars, galleryVars>>

\* ---------------------------------------------------------------- runDemo
\* runDemo(demo) up to the await: stop(), the three assignments, getContext
\* and the call of demo.init, which returns (a promise or nothing: either way
\* the rest of runDemo runs later) or throws.
RunDemoSync(demo) ==
  LET type == renderer(demo)
      s1   == getContext(Broker, type)
      ctx  == ReturnedContext(Broker, type)
      log  == StopCalls
              \o (IF NeedsRecreate(type) THEN <<RecreateEvent>> ELSE <<>>)
              \o <<InitCall(demo, ctx, s1.canvas.size)>>
  IN  /\ StaleAfterStop + 1 <= MaxInFlight
      /\ NeedsRecreate(type) => keyListeners < MaxKeyListeners
      /\ frames' = StopFrames
      /\ animationId' = 0
      /\ currentDemo' = demo
      /\ accumulatedPauseTime' = 0
      /\ isPaused' = FALSE
      /\ currentRendererType' = type
      /\ canvas' = s1.canvas
      /\ ctx2d' = s1.ctx2d
      /\ gl' = s1.gl
      /\ keyListeners' = s1.keyListeners
      /\ calls' = log
      /\ balance' = Balanced(balance, log)
      /\ staleInits' = StaleAfterStop
      /\ \E outcome \in {"pending", "failed"} : initState' = outcome
      /\ pausedSince' = 0
      /\ resumedAt' = NA
      /\ lastLogical' = NA
      /\ prevLogical' = NA
      /\ UNCHANGED <<lastTime, pausedTime, platform, now, registryVars>>

\* runDemo(demo), called by a client that is not the gallery.
runDemo == \E demo \in Demos : RunDemoSync(demo) /\ UNCHANGED galleryVars

\* restart() with runDemo called on an Idle runner too.
restart_alsoIdle ==
  /\ IF currentDemo # Null
       THEN RunDemoSync(currentDemo)
       ELSE RunDemoSync("A")
  /\ UNCHANGED galleryVars

\* restart(): runDemo(currentDemo) when there is a current demo, and nothing
\* otherwise.
RestartBody ==
  IF currentDemo # Null
    THEN RunDemoSync(currentDemo)
    ELSE /\ calls' = <<>>
         /\ UNCHANGED <<runnerVars, hostVars, now, pausedSince, resumedAt,
                        logicalVars, balance, registryVars>>

\* restart(), called by a client that is not the gallery.
restart == RestartBody /\ UNCHANGED galleryVars

\* ------------------------------------------------------------------- loop
\* requestAnimationFrame returns a handle no pending callback has.
FreshFrame(fr) == CHOOSE id \in (1..MaxFrames) \ fr :
                    \A other \in (1..MaxFrames) \ fr : id <= other

\* loop() without "if (this.isPaused) return".
loop_ignoresPause(fr, lt) ==
  IF currentDemo = Null
    THEN /\ frames' = fr
         /\ lastTime' = lt
         /\ calls' = <<>>
         /\ UNCHANGED <<animationId, resumedAt, logicalVars>>
    ELSE /\ frames' = fr \cup {FreshFrame(fr)}
         /\ animationId' = FreshFrame(fr)
         /\ lastTime' = now
         /\ calls' = <<RenderCall(currentDemo, now - accumulatedPauseTime, now - lt)>>
         /\ resumedAt' = NA
         /\ lastLogical' = now - accumulatedPauseTime
         /\ prevLogical' = lastLogical

\* loop() without "if (!this.currentDemo) return".
loop_noDemoTest(fr, lt) ==
  /\ frames' = fr \cup {FreshFrame(fr)}
  /\ animationId' = FreshFrame(fr)
  /\ IF isPaused
       THEN /\ lastTime' = lt
            /\ calls' = <<>>
            /\ UNCHANGED <<resumedAt, logicalVars>>
       ELSE /\ lastTime' = now
            /\ calls' = <<RenderCall(currentDemo, now - accumulatedPauseTime, now - lt)>>
            /\ resumedAt' = NA
            /\ lastLogical' = now - accumulatedPauseTime
            /\ prevLogical' = lastLogical

\* loop(), entered with pending frames fr and this.lastTime = lt.
loop(fr, lt) ==
  IF currentDemo = Null
    THEN /\ frames' = fr
         /\ lastTime' = lt
         /\ calls' = <<>>
         /\ UNCHANGED <<animationId, resumedAt, logicalVars>>
    ELSE /\ frames' = fr \cup {FreshFrame(fr)}
         /\ animationId' = FreshFrame(fr)
         /\ IF isPaused
              THEN /\ lastTime' = lt
                   /\ calls' = <<>>
                   /\ UNCHANGED <<resumedAt, logicalVars>>
              ELSE /\ lastTime' = now
                   /\ calls' = <<RenderCall(currentDemo,
                                            now - accumulatedPauseTime, now - lt)>>
                   /\ resumedAt' = NA
                   /\ lastLogical' = now - accumulatedPauseTime
                   /\ prevLogical' = lastLogical

\* What loop() and the rest of runDemo leave alone.
loopFrame == <<canvas, ctx2d, gl, currentRendererType, currentDemo, isPaused,
               pausedTime, accumulatedPauseTime, platform, now, keyListeners,
               pausedSince, balance, registryVars, galleryVars>>

\* The host runs a pending animation-frame callback.
Tick ==
  /\ \E f \in frames : loop(frames \ {f}, lastTime)
  /\ UNCHANGED <<loopFrame, initState, staleInits>>

\* The rest of runDemo after the await, for the init of the current demo.
InitResolved ==
  /\ initState = "pending"
  /\ Cardinality(frames) < MaxFrames
  /\ initState' = "done"
  /\ loop(frames, now)
  /\ UNCHANGED <<loopFrame, staleInits>>

\* The rest of runDemo after the await, for an init whose unit has been
\* stopped or replaced since: nothing in runDemo tells the two apart.
StaleInitResolved ==
  /\ staleInits > 0
  /\ currentDemo # Null => Cardinality(frames) < MaxFrames
  /\ staleInits' = staleInits - 1
  /\ loop(frames, now)
  /\ UNCHANGED <<loopFrame, initState>>

\* The promise of the current demo's init rejects: runDemo's promise rejects
\* and the rest of runDemo never runs.
InitRejected ==
  /\ initState = "pending"
  /\ initState' = "failed"
  /\ calls' = <<>>
  /\ UNCHANGED <<runnerVars, platform, now, frames, staleInits, keyListeners,
                 pausedSince, resumedAt, logicalVars, balance, registryVars,
                 galleryVars>>

StaleInitRejected ==
  /\ staleInits > 0
  /\ staleInits' = staleInits - 1
  /\ calls' = <<>>
  /\ UNCHANGED <<runnerVars, platform, now, frames, initState, keyListeners,
                 pausedSince, resumedAt, logicalVars, balance, registryVars,
                 galleryVars>>

\* ------------------------------------------------------------ pause/resume
\* pause() without the test of isPaused.
PauseBody_unguarded ==
  /\ isPaused' = TRUE
  /\ pausedTime' = now

PauseBody ==
  IF ~isPaused
    THEN /\ isPaused' = TRUE
         /\ pausedTime' = now
    ELSE UNCHANGED <<isPaused, pausedTime>>

\* resume() with "=" for "+=".
ResumeBody_overwrites ==
  IF isPaused
    THEN /\ accumulatedPauseTime' = now - pausedTime
         /\ isPaused' = FALSE
         /\ lastTime' = now
         /\ resumedAt' = IF initState = "done" THEN now ELSE NA
    ELSE UNCHANGED <<accumulatedPauseTime, isPaused, lastTime, resumedAt>>

\* resume() adding the paused interval twice.
ResumeBody_addsTwice ==
  IF isPaused
    THEN /\ accumulatedPauseTime' = accumulatedPauseTime + 2 * (now - pausedTime)
         /\ isPaused' = FALSE
         /\ lastTime' = now
         /\ resumedAt' = IF initState = "done" THEN now ELSE NA
    ELSE UNCHANGED <<accumulatedPauseTime, isPaused, lastTime, resumedAt>>

\* resume() without the test of isPaused.
ResumeBody_unguarded ==
  /\ accumulatedPauseTime' = accumulatedPauseTime + (now - pausedTime)
  /\ isPaused' = FALSE
  /\ lastTime' = now
  /\ resumedAt' = IF initState = "done" THEN now ELSE NA

ResumeBody ==
  IF isPaused
    THEN /\ accumulatedPauseTime' = accumulatedPauseTime + (now - pausedTime)
         /\ isPaused' = FALSE
         /\ lastTime' = now
         /\ resumedAt' = IF initState = "done" THEN now ELSE NA
    ELSE UNCHANGED <<accumulatedPauseTime, isPaused, lastTime, resumedAt>>

\* What pause, resume and togglePause leave alone.
pauseFrame == <<canvas, ctx2d, gl, currentRendererType, currentDemo,
                animationId, hostVars, now, pausedSince, balance, registryVars,
                logicalVars>>

pause ==
  /\ PauseBody
  /\ calls' = <<>>
  /\ UNCHANGED <<pauseFrame, lastTime, accumulatedPauseTime, resumedAt, galleryVars>>

resume ==
  /\ ResumeBody
  /\ calls' = <<>>
  /\ UNCHANGED <<pauseFrame, pausedTime, galleryVars>>

TogglePauseBody ==
  /\ IF isPaused
       THEN ResumeBody /\ UNCHANGED pausedTime
       ELSE PauseBody /\ UNCHANGED <<accumulatedPauseTime, lastTime, resumedAt>>
  /\ calls' = <<>>
  /\ UNCHANGED pauseFrame

\* togglePause(), called by a client that is not the gallery.
togglePause == TogglePauseBody /\ UNCHANGED galleryVars

\* ------------------------------------------------------- resize and input
\* handleResize() without the call of resize().
handleResize_noForward ==
  /\ \E sz \in Sizes :
       /\ canvas' = [canvas EXCEPT !.size = sz]
       /\ calls' = <<>>
  /\ UNCHANGED <<ctx2d, gl, currentRendererType, currentDemo, animationId,
                 lastTime, isPaused, pausedTime, accumulatedPauseTime,
                 hostVars, now, pausedSince, resumedAt, logicalVars, balance,
                 registryVars, galleryVars>>

\* handleResize(), run by the ResizeObserver: the canvas takes the size of
\* its container and the current demo is told.
handleResize ==
  /\ \E sz \in Sizes :
       /\ canvas' = [canvas EXCEPT !.size = sz]
       /\ calls' = IF currentDemo # Null
                     THEN <<ResizeCall(currentDemo, sz)>> ELSE <<>>
  /\ UNCHANGED <<ctx2d, gl, currentRendererType, currentDemo, animationId,
                 lastTime, isPaused, pausedTime, accumulatedPauseTime,
                 hostVars, now, pausedSince, resumedAt, logicalVars, balance,
                 registryVars, galleryVars>>

\* The calls n listeners make for one event, each testing currentDemo and
\* the optional hook.
Forward(n, hook) ==
  IF currentDemo # Null /\ hook \in Hooks(currentDemo)
    THEN Repeat(n, HookCall(hook, currentDemo))
    ELSE <<>>

\* A pointer or key event: every listener registered for it runs.
\* The calls one event makes: a key event runs the keydown listeners on the
\* window, a pointer event the listeners on the canvas in the document.
Dispatch(hook) ==
  Forward(IF hook = "onKeyDown" THEN keyListeners ELSE canvas.listeners, hook)

InputEvent ==
  /\ \E hook \in {"onMouseMove", "onMouseDown", "onKeyDown"} :
       calls' = Dispatch(hook)
  /\ UNCHANGED <<runnerVars, hostVars, now, pausedSince, resumedAt,
                 logicalVars, balance,
                 registryVars, galleryVars>>

\* ------------------------------------------------------------------- Next
\* The public operations and the callbacks of the loop and of init.
NextRunner ==
  \/ runDemo
  \/ restart
  \/ stop
  \/ pause
  \/ resume
  \/ togglePause
  \/ Tick
  \/ InitResolved
  \/ StaleInitResolved
  \/ InitRejected
  \/ StaleInitRejected

Next ==
  \/ NextRunner
  \/ Advance
  \/ handleResize
  \/ InputEvent

Spec == Init /\ [][Next]_vars

\* The runner under a moving clock, on a platform that has both back-ends,
\* with a container that keeps its size and no pointer or key input: none of
\* these is read by loop, pause or resume.
NextTiming ==
  \/ NextRunner
  \/ Advance

InitTiming == Init /\ platform = RendererTypes

SpecTiming == InitTiming /\ [][NextTiming]_vars

\* The runner with resizes and input, on either platform, all within one
\* reading of the clock: no branch of the runner reads the clock.
NextLifecycle ==
  \/ NextRunner
  \/ handleResize
  \/ InputEvent

SpecLifecycle == Init /\ [][NextLifecycle]_vars

\* --------------------------------------------------------------- registry
\* What the registry operations leave alone: the runner and its environment.
registryFrame == <<runnerVars, hostVars, now, calls, pausedSince, resumedAt,
                   logicalVars,
                   galleryVars,
                   balance>>

\* registerDemo with unshift for push.
registerDemo_unshift(demo) ==
  /\ Len(registered) < MaxRegistered
  /\ demoRegistry' = [demoRegistry EXCEPT ![demo.era] = <<demo>> \o @]
  /\ registered' = Append(registered, demo)
  /\ UNCHANGED <<returned, registryFrame>>

\* registerDemo(demo): push on the array of the unit's era.
registerDemo(demo) ==
  /\ Len(registered) < MaxRegistered
  /\ demoRegistry' = [demoRegistry EXCEPT ![demo.era] = Append(@, demo)]
  /\ registered' = Append(registered, demo)
  /\ UNCHANGED <<returned, registryFrame>>

\* getDemosByEra(era): the array of that era.
getDemosByEra(era) == demoRegistry[era]

\* Array.prototype.find with the test d.metadata.id === id: the first unit of
\* list that passes, as a list of one unit, or undefined, as the empty list.
find(list, id) ==
  IF \E i \in DOMAIN list : list[i].id = id
    THEN <<list[CHOOSE i \in DOMAIN list :
                  /\ list[i].id = id
                  /\ \A j \in 1..(i - 1) : list[j].id # id]>>
    ELSE <<>>

\* The for loop of getDemoById from the k-th era on.
RECURSIVE ScanEras(_, _)
ScanEras(k, id) ==
  IF k > Len(EraOrder) THEN <<>>
  ELSE LET demo == find(demoRegistry[EraOrder[k]], id)
       IN  IF demo # <<>> THEN demo ELSE ScanEras(k + 1, id)

getDemoById(id) == ScanEras(1, id)

\* A caller asks for the units of an era.
LookupByEra ==
  /\ \E era \in Eras :
       returned' = [op |-> "getDemosByEra", arg |-> era, value |-> getDemosByEra(era)]
  /\ UNCHANGED <<demoRegistry, registered, registryFrame>>

\* A caller asks for a unit by its identifier.
LookupById ==
  /\ \E id \in Ids :
       returned' = [op |-> "getDemoById", arg |-> id, value |-> getDemoById(id)]
  /\ UNCHANGED <<demoRegistry, registered, registryFrame>>

\* A unit's module is imported and registers its unit.
Register == \E demo \in RegistryDemos : registerDemo(demo)

\* The registry while the modules of the units load, before any unit runs.
NextRegistry ==
  \/ Register
  \/ LookupByEra
  \/ LookupById

InitRegistry == Init /\ platform = RendererTypes

SpecRegistry == InitRegistry /\ [][NextRegistry]_vars

\* ---------------------------------------------------------------- gallery
\* The cards of the gallery's current era, in the order getDemosByEra gives.
Cards == <<"A", "B">>

\* updatePauseButton(), once the runner call before it has returned.
PauseLabel(paused) == IF paused THEN ">" ELSE "||"

\* selectDemo(demo): the unit becomes the gallery's current demo, the runner
\* runs it and the pause button is updated.
selectDemo(demo) ==
  /\ selectedDemo' = demo
  /\ RunDemoSync(demo)
  /\ btnPause' = PauseLabel(isPaused')

\* new Gallery(canvas): renderDemoGrid() finds no current demo among the
\* cards and selects the first.
GalleryConstructor ==
  /\ selectedDemo = Null
  /\ selectDemo(Cards[1])

\* A click on a card.
CardClick ==
  /\ selectedDemo # Null
  /\ \E i \in DOMAIN Cards : selectDemo(Cards[i])

\* findIndex((d) => d === this.currentDemo): 0-based, -1 when absent.
findIndex(demo) ==
  IF \E i \in DOMAIN Cards : Cards[i] = demo
    THEN (CHOOSE i \in DOMAIN Cards : Cards[i] = demo) - 1
    ELSE -1

\* navigateDemo(direction): the card before or after the current one,
\* wrapping around.
navigateDemo(direction) ==
  LET stepped  == findIndex(selectedDemo) + direction
      newIndex == IF stepped < 0 THEN Len(Cards) - 1
                  ELSE IF stepped >= Len(Cards) THEN 0 ELSE stepped
  IN  selectDemo(Cards[newIndex + 1])

\* The click listener of the pause button.
PauseButtonClick ==
  /\ selectedDemo # Null
  /\ TogglePauseBody
  /\ btnPause' = PauseLabel(isPaused')
  /\ UNCHANGED selectedDemo

\* handleKeyboard(e) for the keys that reach the runner: space, r and the
\* two arrows.
handleKeyboard(key) ==
  /\ selectedDemo # Null
  /\ CASE key = " " ->
            /\ TogglePauseBody
            /\ btnPause' = PauseLabel(isPaused')
            /\ UNCHANGED selectedDemo
       [] key = "r" ->
            /\ RestartBody
            /\ UNCHANGED galleryVars
       [] key = "ArrowLeft" -> navigateDemo(-1)
       [] key = "ArrowRight" -> navigateDemo(1)

KeyDown == \E key \in {" ", "r", "ArrowLeft", "ArrowRight"} : handleKeyboard(key)

\* The page: the gallery drives the runner, the host runs the frame
\* callbacks and settles the init promises.
NextGallery ==
  \/ GalleryConstructor
  \/ CardClick
  \/ PauseButtonClick
  \/ KeyDown
  \/ Tick
  \/ InitResolved
  \/ StaleInitResolved
  \/ InitRejected
  \/ StaleInitRejected

InitGallery == Init /\ platform = RendererTypes

SpecGallery == InitGallery /\ [][NextGallery]_vars

\* ----------------------------------------------------------- sanity checks
TypeOK ==
  /\ canvas.ctx \in RendererTypes \cup {Null}
  /\ canvas.size \in Sizes
  /\ canvas.listeners = 1
  /\ ctx2d \in {Null, "canvas2d"}
  /\ gl \in {Null, "webgl2"}
  /\ currentRendererType \in RendererTypes \cup {Null}
  /\ currentDemo \in Demos \cup {Null}
  /\ animationId \in 0..MaxFrames
  /\ isPaused \in BOOLEAN
  /\ frames \subseteq 1..MaxFrames
  /\ initState \in {"none", "pending", "done", "failed"}
  /\ staleInits \in 0..MaxInFlight
  /\ keyListeners \in 1..MaxKeyListeners
  /\ animationId # 0 => animationId \in frames
  /\ lastTime <= now /\ pausedTime <= now

\* ----------------------------------------------------------------- claims
RenderCalls == CallsOf(calls, "render")

\* C1: the logical time passed to render is the wall-clock time of the tick
\* minus all the time spent paused since the activation started.
C1_LogicalTimeExcludesPauses ==
  \A i \in RenderCalls : calls[i].time = now - pausedSince

\* Two pauses of this activation are over (500 ms and 16 ms) and a frame
\* has been rendered.
C1_RenderAfterTwoPauses ==
  /\ RenderCalls # {}
  /\ pausedSince = 516

\* C2: deltaTime is never negative, and the first render after a resume()
\* of the running unit reports the time elapsed since that resume().
C2_DeltaFromResume ==
  [][\A i \in CallsOf(calls', "render") :
       /\ calls'[i].dt >= 0
       /\ resumedAt # NA => calls'[i].dt = now' - resumedAt]_vars

\* C3: when runDemo(B) supersedes a unit whose init is still in flight, B.init
\* is called exactly once, nothing is rendered, and the superseded unit gets
\* no destroy (its init had not resolved).
C3_SupersedeInFlight ==
  [][(currentDemo # Null /\ initState = "pending" /\ CallsOf(calls', "init") # {})
       => /\ Cardinality(CallsOf(calls', "init")) = 1
          /\ CallsOf(calls', "render") = {}
          /\ \A i \in CallsOf(calls', "destroy") : calls'[i].demo # currentDemo]_vars

\* C4: while the current unit's init has not completed no tick is scheduled
\* and render is not invoked.
C4_NoLoopBeforeInit ==
  (currentDemo # Null /\ initState # "done")
    => (frames = {} /\ RenderCalls = {})

C6_UnsupportedBackend ==
  /\ \A i \in CallsOf(calls, "init") : renderer(calls[i].demo) \in platform
  /\ currentDemo # Null => renderer(currentDemo) \in platform

\* The units that have been initialised and not destroyed since.
Active == {d \in Demos : balance[d] > 0}

\* C7: at most one unit is active, it is the current demo, and the live
\* context is of the kind that unit declares.
C7_ActiveUnitAgrees ==
  /\ Cardinality(Active) <= 1
  /\ Active \subseteq {currentDemo}
  /\ currentDemo # Null =>
       /\ currentRendererType = renderer(currentDemo)
       /\ ctx2d # Null => renderer(currentDemo) = "canvas2d"
       /\ gl # Null => renderer(currentDemo) = "webgl2"

\* The webgl2 unit is active with its context after a switch from canvas2d.
C7_WebglAfterSwitch ==
  /\ currentDemo = "B"
  /\ gl = "webgl2"
  /\ CallsOf(calls, "recreateCanvas") # {}

\* C8: every activation is ended by exactly one destroy, and no render,
\* resize or input hook reaches a unit between its destroy and its next init.
C8_DestroyOnceThenUntouched ==
  /\ \A d \in Demos : balance[d] = IF d = currentDemo THEN 1 ELSE 0
  /\ Cardinality(CallsOf(calls, "destroy")) <= 1
  /\ \A i \in DOMAIN calls :
       calls[i].op \in {"render", "resize", "onMouseMove", "onMouseDown", "onKeyDown"}
         => balance[calls[i].demo] = 1

\* A unit has been destroyed to make room for the other one, whose init has
\* been called.
C8_Replaced ==
  \E i \in CallsOf(calls, "destroy") : \E j \in CallsOf(calls, "init") :
    calls[i].demo # calls[j].demo

\* C9: destroy is invoked only on a unit whose init has completed.
C9_DestroyOnlyAfterInit ==
  [][CallsOf(calls', "destroy") # {} => initState = "done"]_vars

\* C10: stop() leaves the runner Idle, calls destroy only on the unit that
\* was active, and on an Idle runner calls nothing and changes nothing.
C10_StopIdempotent ==
  [][stop =>
       /\ currentDemo' = Null
       /\ animationId' = 0
       /\ \A i \in DOMAIN calls' :
            calls'[i].op = "destroy" /\ calls'[i].demo = currentDemo
       /\ Len(calls') <= 1
       /\ currentDemo = Null =>
            /\ calls' = <<>>
            /\ UNCHANGED <<runnerVars, hostVars>>]_vars

\* stop() has just destroyed the active unit: the runner is Idle and the
\* next stop() is the second in a row.
C10_Stopped ==
  /\ currentDemo = Null
  /\ Len(calls) = 1
  /\ calls[1].op = "destroy"

\* C11: pause() on a paused runner changes neither the flag nor the recorded
\* pause instant, so the resume() that ends the pause adds the one interval
\* since the first pause(): the accumulated duration becomes all the time
\* spent paused, each interval counted once.
C11_PauseWhilePausedNoOp ==
  [][/\ (isPaused /\ pause) => (isPaused' /\ pausedTime' = pausedTime)
     /\ (isPaused /\ resume) =>
          /\ accumulatedPauseTime' - accumulatedPauseTime = now - pausedTime
          /\ accumulatedPauseTime' = pausedSince]_vars

\* One pause that began at Instant(0) and lasted over two later instants (at
\* each of which pause() could be called again) has been resumed.
C11_OneIntervalResumed ==
  /\ ~isPaused
  /\ pausedTime = Instant(0)
  /\ accumulatedPauseTime = Instant(2) - Instant(0)
  /\ pausedSince = Instant(2) - Instant(0)

\* C12: a resize tells the active unit the new size once, and an activation
\* destroys the unit it replaces once, rebuilds the canvas once when the kind
\* changes, keeps the canvas size across the rebuild and hands that size to
\* init.
C12_SizeSurvivesRebuild ==
  [][/\ \A i \in CallsOf(calls', "init") :
          /\ calls'[i].size = canvas.size
          /\ canvas'.size = canvas.size
          /\ currentRendererType \notin {Null, renderer(calls'[i].demo)}
               => Cardinality(CallsOf(calls', "recreateCanvas")) = 1
          /\ currentDemo # Null
               => Cardinality({j \in CallsOf(calls', "destroy") :
                                 calls'[j].demo = currentDemo}) = 1
     /\ \A i \in CallsOf(calls', "resize") :
          calls' = <<ResizeCall(currentDemo, canvas'.size)>>]_vars

\* The raster unit, resized to 20x20, has been replaced by the GPU unit.
C12_GpuUnitInitAt20 ==
  calls = <<DestroyCall("A"), RecreateEvent, InitCall("B", "webgl2", <<20, 20>>)>>

\* C13: stop() and runDemo() leave no animation-frame callback pending, and
\* render is only invoked for an activation whose init has completed.
C13_StopCancelsTick ==
  [][/\ (stop \/ runDemo) => frames' = {}
     /\ CallsOf(calls', "render") # {} => initState' = "done"]_vars

\* C14: when the init of the activation completes the paused flag is clear,
\* the accumulated paused duration is zero, lastTime is the completion
\* instant and a frame is requested.
C14_RunningWhenInitCompletes ==
  [][(initState = "pending" /\ initState' = "done") =>
       /\ ~isPaused'
       /\ accumulatedPauseTime' = 0
       /\ lastTime' = now'
       /\ animationId' \in frames']_vars

\* C15: restart() with an active unit U does what runDemo(U) does (destroy on
\* U, then init on U with the context of U's kind and the canvas size, pause
\* state and accumulator reset, the pending frame cancelled); on an Idle
\* runner it calls nothing and changes nothing.
C15_RestartIsRunDemo ==
  [][restart =>
       IF currentDemo # Null
         THEN /\ calls' = <<DestroyCall(currentDemo),
                            InitCall(currentDemo,
                                     ReturnedContext(Broker, renderer(currentDemo)),
                                     canvas.size)>>
              /\ currentDemo' = currentDemo
              /\ ~isPaused'
              /\ accumulatedPauseTime' = 0
              /\ animationId' = 0
              /\ animationId \notin frames'
              /\ initState' \in {"pending", "failed"}
              /\ \E demo \in {currentDemo} : RunDemoSync(demo)
         ELSE /\ calls' = <<>>
              /\ UNCHANGED <<runnerVars, hostVars>>]_vars

\* The active unit has just been destroyed and initialised again.
C15_Restarted ==
  /\ Len(calls) = 2
  /\ calls[1].op = "destroy"
  /\ calls[2].op = "init"
  /\ calls[1].demo = calls[2].demo
  /\ currentDemo = calls[2].demo

\* C16: pause() on an Idle runner leaves the paused flag false and records no
\* pause instant.
C16_PauseOnIdle ==
  [][(currentDemo = Null /\ ~isPaused /\ pause)
       => (~isPaused' /\ pausedTime' = pausedTime)]_vars

\* C17: a resize calls resize(width, height) with the new size on the active
\* unit, if any, and changes nothing of the runner but the canvas size; with
\* the size the canvas already has it changes nothing at all.
C17_ResizeFrame ==
  [][handleResize =>
       /\ calls' = IF currentDemo # Null
                     THEN <<ResizeCall(currentDemo, canvas'.size)>> ELSE <<>>
       /\ canvas' = [canvas EXCEPT !.size = canvas'.size]
       /\ UNCHANGED <<ctx2d, gl, currentRendererType, currentDemo, animationId,
                      lastTime, isPaused, pausedTime, accumulatedPauseTime,
                      hostVars>>]_vars

\* The active unit has been told that the canvas is now 20x20.
C17_Resized ==
  /\ currentDemo # Null
  /\ calls = <<ResizeCall(currentDemo, <<20, 20>>)>>
  /\ canvas.size = <<20, 20>>

\* C18: the canvas in the document and the window always carry listeners, and
\* an event for a hook the active unit implements reaches that hook.
C18_InputSurvivesRebuild ==
  /\ canvas.listeners >= 1
  /\ keyListeners >= 1
  /\ currentDemo # Null =>
       \A hook \in Hooks(currentDemo) :
         \E i \in DOMAIN Dispatch(hook) :
           Dispatch(hook)[i] = HookCall(hook, currentDemo)

\* A pointer event has reached the GPU unit on a rebuilt canvas.
C18_PointerAfterRebuild ==
  /\ keyListeners > 1
  /\ currentDemo = "B"
  /\ calls # <<>>
  /\ \A i \in DOMAIN calls : calls[i] = HookCall("onMouseMove", "B")

\* C19: after the init of the current unit has thrown or rejected no frame is
\* pending and the unit is not rendered.
C19_NoLoopAfterInitFailure ==
  initState = "failed" => (frames = {} /\ RenderCalls = {})

\* The position of era in the order getDemoById scans.
EraRank(era) == CHOOSE k \in DOMAIN EraOrder : EraOrder[k] = era

\* The units of list whose era is era, in the order of list.
RECURSIVE OfEra(_, _)
OfEra(list, era) ==
  IF list = <<>> THEN <<>>
  ELSE (IF Head(list).era = era THEN <<Head(list)>> ELSE <<>>)
         \o OfEra(Tail(list), era)

\* C20: each era's list holds the units registered with that era in the order
\* of registration (registerDemo appends to its own era's list only),
\* getDemosByEra returns that list, and getDemoById returns undefined when no
\* registered unit has the id and otherwise the unit with that id that comes
\* first by era (oldschool, golden, modern) and then by registration.
C20_RegistryOrder ==
  /\ \A era \in Eras :
       /\ demoRegistry[era] = OfEra(registered, era)
       /\ getDemosByEra(era) = OfEra(registered, era)
  /\ \A id \in Ids :
       LET hits == {i \in DOMAIN registered : registered[i].id = id}
       IN  IF hits = {} THEN getDemoById(id) = <<>>
           ELSE \E i \in hits :
                  /\ getDemoById(id) = <<registered[i]>>
                  /\ \A j \in hits :
                       \/ EraRank(registered[i].era) < EraRank(registered[j].era)
                       \/ /\ registered[i].era = registered[j].era
                          /\ i <= j

\* A lookup by id has returned a golden unit although a modern unit with that
\* id was registered before it, and no unit has the other id.
C20_FoundByEraOrder ==
  /\ returned.op = "getDemoById"
  /\ returned.value = getDemoById(returned.arg)
  /\ Len(returned.value) = 1
  /\ returned.value[1].era = "golden"
  /\ \E i, j \in DOMAIN registered :
       /\ i < j
       /\ registered[i].id = returned.arg
       /\ registered[i].era = "modern"
       /\ registered[j] = returned.value[1]
  /\ \E id \in Ids : getDemoById(id) = <<>>

\* C21: no two registered units have the same id.
C21_UniqueIds ==
  \A i, j \in DOMAIN registered :
    i # j => registered[i].id # registered[j].id

\* C22: at most one animation-frame callback is pending.
C22_OnePendingTick ==
  Cardinality(frames) <= 1

C24_OneLiveContext ==
  [][/\ ~(ctx2d' # Null /\ gl' # Null)
     /\ ctx2d' # Null => currentRendererType' = "canvas2d"
     /\ gl' # Null => currentRendererType' = "webgl2"
     /\ \A i \in CallsOf(calls', "init") :
          LET kind == renderer(calls'[i].demo)
              held == IF kind = "canvas2d" THEN ctx2d ELSE gl
          IN  (currentRendererType = kind /\ held # Null) =>
                /\ calls'[i].ctx = held
                /\ CallsOf(calls', "recreateCanvas") = {}
                /\ UNCHANGED <<canvas, ctx2d, gl, keyListeners>>]_vars

\* The raster unit has been activated on a runner that already held the 2d
\* context, and was handed it.
C24_SameKindReused ==
  /\ ctx2d = "canvas2d"
  /\ keyListeners = 1
  /\ \E i \in CallsOf(calls, "destroy") : calls[i].demo = "A"
  /\ \E i \in CallsOf(calls, "init") : calls[i] = InitCall("A", "canvas2d", canvas.size)

\* C25: resume() on a runner that is not paused changes neither the
\* accumulated paused duration nor lastTime nor the paused flag.
C25_ResumeWhenNotPaused ==
  [][(~isPaused /\ resume) =>
       UNCHANGED <<accumulatedPauseTime, lastTime, isPaused, pausedTime>>]_vars

\* A pause of 500 ms was resumed at Instant(1), the clock has moved on (so a
\* second resume() would add more), and the accumulator holds the one pause.
C25_ResumedEarlier ==
  /\ ~isPaused
  /\ currentDemo # Null
  /\ pausedTime = Instant(0)
  /\ lastTime = Instant(1)
  /\ now = Instant(2)
  /\ accumulatedPauseTime = Instant(1) - Instant(0)

\* C26: with no current demo the paused flag is false.
C26_PausedOnlyWhenActive ==
  currentDemo = Null => ~isPaused

\* C27: when an init resolves after stop() has made the runner Idle, no
\* frame is requested, nothing is rendered and the runner stays Idle.
C27_StopDuringInit ==
  [][(StaleInitResolved /\ currentDemo = Null) =>
       /\ calls' = <<>>
       /\ currentDemo' = Null
       /\ UNCHANGED <<frames, animationId, initState>>]_vars

\* The init of a stopped unit has resolved on the Idle runner: the rest of
\* runDemo has stored lastTime and nothing else has happened.
C27_ResolvedAfterStop ==
  /\ currentDemo = Null
  /\ initState = "none"
  /\ staleInits = 0
  /\ lastTime = now
  /\ pausedTime = 0
  /\ frames = {}
  /\ animationId = 0
  /\ calls = <<>>
  /\ \A d \in Demos : balance[d] = 0

\* C29: an event for a hook the current demo implements makes exactly one
\* call of that hook.
C29_ForwardedOnce ==
  currentDemo # Null =>
    \A hook \in Hooks(currentDemo) :
      Dispatch(hook) = <<HookCall(hook, currentDemo)>>

\* C28: the logical time of a render is not less than that of the render
\* before it in the same activation.
C28_LogicalTimeMonotone ==
  [][\A i \in CallsOf(calls', "render") :
       lastLogical # NA => calls'[i].time >= lastLogical]_vars

\* A frame was rendered at Instant(0); the runner was paused from Instant(1)
\* to Instant(2) and has rendered again at Instant(2), with the logical time
\* Instant(1).
C28_RenderAcrossPause ==
  /\ RenderCalls # {}
  /\ now = Instant(2)
  /\ pausedTime = Instant(1)
  /\ accumulatedPauseTime = Instant(2) - Instant(1)
  /\ prevLogical = Instant(0)
  /\ lastLogical = Instant(1)
  /\ \A i \in RenderCalls : calls[i].time = lastLogical

\* C30: once the gallery is built the pause button reads ">" exactly when
\* the runner is paused and "||" otherwise.
C30_PauseLabelMatches ==
  selectedDemo # Null => btnPause = PauseLabel(isPaused)

====
